---- MODULE Spec2Model ----
(***************************************************************************)
(* Quadrature-rule construction of basix (quadrature.cpp): Jacobi          *)
(* polynomials, Gauss-Jacobi points by Newton iteration with deflation,    *)
(* collapsed tensor-product rules on the reference line, triangle and      *)
(* tetrahedron, and the mapping of a reference rule onto a simplex.        *)
(*                                                                         *)
(* Arithmetic.  The code computes in IEEE doubles.  The model computes on  *)
(* the grid of multiples of 1/Scale, rounding every product, quotient and  *)
(* square root to the nearest grid value, and keeps the IEEE specials      *)
(* +inf, -inf and NaN that a division by zero produces.  1/2, 1/3, 1/4,    *)
(* 1/8, 1/9 and 1/6 are grid values, so the one-point rules are computed   *)
(* without rounding.                                                       *)
(***************************************************************************)
EXTENDS Integers, Sequences, FiniteSets, TLC

\* Bounds of the inputs.
MaxM == 2
MaxRows == 5
MaxCols == 4
MaxCoord == 2


\* Grid resolution: a finite value n stands for the real number n / Scale.
Scale == 8 * 9 * 5 * 7

----------------------------------------------------------------------------
(* Values: [k |-> "fin", v |-> n], [k |-> "inf", v |-> +1 or -1],          *)
(* [k |-> "nan", v |-> 0].                                                 *)

\* Evaluation.  TLC passes an operator argument or a LET definition
\* unevaluated and evaluates it again at every use, while a bound variable
\* holds a value.  Where a result is used more than once, the definitions
\* below therefore write  CHOOSE r \in {F(v) : v \in {e}} : TRUE  for
\* F(e): e is evaluated once, v is bound to its value, and r is F(v).
\* Each arithmetic operation is written so: NegValue, AddValues, ... on
\* values, and Neg, Add, ... which evaluate their operands first.

Fin(n) == [k |-> "fin", v |-> n]
Inf(sg) == [k |-> "inf", v |-> sg]
NaN == [k |-> "nan", v |-> 0]
FromInt(i) == Fin(i * Scale)
Zero == Fin(0)
One == FromInt(1)

IsFin(x) == x.k = "fin"
IsInf(x) == x.k = "inf"
IsNaN(x) == ~IsFin(x) /\ ~IsInf(x)

AbsInt(n) == IF n < 0 THEN -n ELSE n
SgnInt(n) == IF n < 0 THEN -1 ELSE IF n > 0 THEN 1 ELSE 0

\* n / d rounded to the nearest integer, halves up (n >= 0, d > 0).
RoundDiv(n, d) == (n \div d) + (IF 2 * (n % d) >= d THEN 1 ELSE 0)

NegValue(x) == IF IsFin(x) THEN Fin(-x.v) ELSE IF IsInf(x) THEN Inf(-x.v) ELSE NaN
Neg(x) == CHOOSE r \in {NegValue(vx) : vx \in {x}} : TRUE

AddValues(x, y) ==
  IF IsNaN(x) \/ IsNaN(y) THEN NaN
  ELSE IF IsInf(x) THEN (IF IsInf(y) /\ y.v # x.v THEN NaN ELSE x)
  ELSE IF IsInf(y) THEN y
  ELSE Fin(x.v + y.v)
Add(x, y) == CHOOSE r \in {AddValues(vx, vy) : vx \in {x}, vy \in {y}} : TRUE

Sub(x, y) == Add(x, Neg(y))

MulValues(x, y) ==
  IF IsNaN(x) \/ IsNaN(y) THEN NaN
  ELSE IF IsInf(x) \/ IsInf(y)
    THEN (IF x.v = 0 \/ y.v = 0 THEN NaN ELSE Inf(SgnInt(x.v) * SgnInt(y.v)))
  ELSE LET ax == AbsInt(x.v)
           ay == AbsInt(y.v)
       IN Fin(SgnInt(x.v) * SgnInt(y.v)
              * ((ax \div Scale) * ay + RoundDiv((ax % Scale) * ay, Scale)))
Mul(x, y) == CHOOSE r \in {MulValues(vx, vy) : vx \in {x}, vy \in {y}} : TRUE

DivValues(x, y) ==
  IF IsNaN(x) \/ IsNaN(y) THEN NaN
  ELSE IF IsInf(x) THEN (IF IsInf(y) THEN NaN
                         ELSE Inf(x.v * (IF y.v < 0 THEN -1 ELSE 1)))
  ELSE IF IsInf(y) THEN Zero
  ELSE IF y.v = 0 THEN (IF x.v = 0 THEN NaN ELSE Inf(SgnInt(x.v)))
  ELSE LET ax == AbsInt(x.v)
           ay == AbsInt(y.v)
       IN Fin(SgnInt(x.v) * SgnInt(y.v)
              * ((ax \div ay) * Scale + RoundDiv((ax % ay) * Scale, ay)))
Div(x, y) == CHOOSE r \in {DivValues(vx, vy) : vx \in {x}, vy \in {y}} : TRUE

\* fabs
FabsValue(x) == IF IsFin(x) THEN Fin(AbsInt(x.v)) ELSE IF IsInf(x) THEN Inf(1) ELSE NaN
Fabs(x) == CHOOSE r \in {FabsValue(vx) : vx \in {x}} : TRUE

\* x < y on doubles: false whenever a NaN is compared.
LessValues(x, y) ==
  IF IsNaN(x) \/ IsNaN(y) THEN FALSE
  ELSE IF IsInf(x) THEN x.v < 0 /\ ~(IsInf(y) /\ y.v < 0)
  ELSE IF IsInf(y) THEN y.v > 0
  ELSE x.v < y.v
Less(x, y) == CHOOSE r \in {LessValues(vx, vy) : vx \in {x}, vy \in {y}} : TRUE

\* Largest r with r * r <= n, by bisection on lo <= r < hi.
RECURSIVE ISqrtBetween(_, _, _)
ISqrtBetween(n, lo, hi) ==
  IF hi - lo <= 1 THEN lo
  ELSE LET mid == (lo + hi) \div 2
       IN IF mid * mid <= n THEN ISqrtBetween(n, mid, hi)
          ELSE ISqrtBetween(n, lo, mid)

\* sqrt, rounded to the nearest grid value.
SqrtValue(x) ==
  IF IsNaN(x) THEN NaN
  ELSE IF IsInf(x) THEN (IF x.v > 0 THEN x ELSE NaN)
  ELSE IF x.v < 0 THEN NaN
  ELSE LET n == x.v * Scale
           r == ISqrtBetween(n, 0, 46341)
       IN Fin(IF n - r * r > r THEN r + 1 ELSE r)
Sqrt(x) == CHOOSE r \in {SqrtValue(vx) : vx \in {x}} : TRUE

Half == Fin(Scale \div 2)
Quarter == Fin(Scale \div 4)
Eighth == Fin(Scale \div 8)

----------------------------------------------------------------------------
(* Polynomial (polynomial.h): a univariate polynomial as the sequence of   *)
(* its monomial coefficients, p[i] the coefficient of x^(i-1).             *)

\* A function written [i \in S |-> e] is kept by TLC as an unevaluated body;
\* Force turns it into the table of its values, as the code stores an array.
Force(f) == f @@ <<>>

PolyOne == <<One>>
PolyX == <<Zero, One>>

Coeff(p, i) == IF i \in 1..Len(p) THEN p[i] ELSE Zero
MaxInt(a, b) == IF a > b THEN a ELSE b

PolyScale(p, s) == Force([i \in 1..Len(p) |-> Mul(p[i], s)])
PolyAdd(p, q) == Force([i \in 1..MaxInt(Len(p), Len(q)) |-> Add(Coeff(p, i), Coeff(q, i))])
PolySub(p, q) == Force([i \in 1..MaxInt(Len(p), Len(q)) |-> Sub(Coeff(p, i), Coeff(q, i))])

\* Sum over j = lo..hi of p[j] * q[i + 1 - j].
RECURSIVE ConvSum(_, _, _, _, _)
ConvSum(p, q, i, j, hi) ==
  IF j > hi THEN Zero
  ELSE Add(Mul(p[j], Coeff(q, i + 1 - j)), ConvSum(p, q, i, j + 1, hi))

PolyMul(p, q) == Force([i \in 1..(Len(p) + Len(q) - 1) |-> ConvSum(p, q, i, 1, Len(p))])

\* diff(0): the derivative; the zero constant for a constant polynomial.
PolyDiff(p) ==
  IF Len(p) <= 1 THEN <<Zero>>
  ELSE Force([i \in 1..(Len(p) - 1) |-> Mul(FromInt(i), p[i + 1])])

\* tabulate(x): the value at the point x, by Horner's scheme.
RECURSIVE Horner(_, _, _)
Horner(p, x, i) ==
  IF i = Len(p) THEN p[i]
  ELSE Add(p[i], Mul(x, Horner(p, x, i + 1)))

Tabulate(p, x) == Horner(p, x, 1)

----------------------------------------------------------------------------
(* compute_jacobi(a, n): the n-th Jacobi polynomial with weights (a, 0).   *)

\* One pass of the recurrence loop: Jn[k] from Jn[k-1] and Jn[k-2]; the
\* doubles a1..a4 are products of small integers, hence exact.
JacobiStep(a, k, Jk1, Jk2) ==
  LET a1 == FromInt(2 * k * (k + a) * (2 * k + a - 2))
      a2 == Div(FromInt((2 * k + a - 1) * (a * a)), a1)
      a3 == Div(FromInt((2 * k + a - 2) * (2 * k + a - 1) * (2 * k + a)), a1)
      a4 == Div(FromInt(2 * (k + a - 1) * (k - 1) * (2 * k + a)), a1)
  IN PolySub(PolyMul(Jk1, PolyAdd(PolyScale(PolyOne, a2), PolyScale(PolyX, a3))),
             PolyScale(Jk2, a4))

\* Jn[k], with Jn[0] = one and Jn[1] = (one * a + x * (a + 2)) * 0.5.
RECURSIVE JacobiAt(_, _)
JacobiAt(a, k) ==
  IF k = 0 THEN PolyOne
  ELSE IF k = 1
    THEN PolyScale(PolyAdd(PolyScale(PolyOne, FromInt(a)),
                           PolyScale(PolyX, FromInt(a + 2))), Half)
  ELSE CHOOSE r \in {JacobiStep(a, k, Jk1, Jk2) :
                      Jk1 \in {JacobiAt(a, k - 1)}, Jk2 \in {JacobiAt(a, k - 2)}} : TRUE

compute_jacobi(a, n) == JacobiAt(a, n)

----------------------------------------------------------------------------
(* compute_gauss_jacobi_points(a, m): the m roots of the m-th Jacobi       *)
(* polynomial by Newton's method with deflation.  The array x is a         *)
(* function on 0..m-1, as in the code.                                     *)

\* eps = 1.e-8 lies far above the rounding error of a double and far below
\* the distance between two roots; the model keeps both relations by taking
\* eps as two grid steps, just above the rounding error of one grid step.
eps == Fin(2)
max_iter == 100

\* An element of Eigen::ArrayXd x(m) that was never written.
Uninit == [k |-> "uninit", v |-> 0]

M_PI == Fin((355 * Scale + 56) \div 113)

\* cos(t) from t2 = t * t, as the nested series
\* 1 - t2/(1*2) * (1 - t2/(3*4) * (1 - t2/(5*6) * ...)), 10 factors deep.
RECURSIVE CosSeries(_, _)
CosSeries(t2, n) ==
  IF n > 10 THEN One
  ELSE CHOOSE r \in {Sub(One, Mul(Div(t2, FromInt((2 * n - 1) * (2 * n))), c)) :
                      c \in {CosSeries(t2, n + 1)}} : TRUE

Cos(t) == CHOOSE r \in {CosSeries(t2, 1) : t2 \in {Mul(t, t)}} : TRUE

\* -cos((2.0 * k + 1.0) * M_PI / (2.0 * m))
Chebyshev(k, m) == Neg(Cos(Div(Mul(FromInt(2 * k + 1), M_PI), FromInt(2 * m))))

\* The guess without the averaging of line 56.
InitialGuess_NoAverage(x, k, m) ==
  CHOOSE r \in {Force([x EXCEPT ![k] = c]) : c \in {Chebyshev(k, m)}} : TRUE

\* The initial guess written to x[k].
InitialGuess(x, k, m) ==
  CHOOSE r \in {Force([x EXCEPT ![k] = IF k > 0 THEN Mul(Half, Add(c, x[k - 1])) ELSE c]) :
                 c \in {Chebyshev(k, m)}} : TRUE

\* for (i = 0; i < k; ++i) s += 1.0 / (x[k] - x[i]); acc.idx lists the
\* indices i the loop read.
RECURSIVE DeflationLoop(_, _, _, _)
DeflationLoop(x, k, i, acc) ==
  IF i < k
    THEN CHOOSE r \in {DeflationLoop(x, k, i + 1, acc1) :
                        acc1 \in {[s |-> Add(acc.s, Div(One, Sub(x[k], x[i]))),
                                   idx |-> Append(acc.idx, i)]}} : TRUE
  ELSE acc

\* One pass of the while loop up to x[k] -= delta.
NewtonStep(d, f, fp) == Div(f, Sub(fp, Mul(f, d.s)))

NewtonUpdate(J, Jd, x, k) ==
  CHOOSE r \in {[x |-> Force([x EXCEPT ![k] = Sub(x[k], dlt)]), delta |-> dlt, idx |-> d.idx] :
                 d \in {DeflationLoop(x, k, 0, [s |-> Zero, idx |-> <<>>])},
                 dlt \in {NewtonStep(DeflationLoop(x, k, 0, [s |-> Zero, idx |-> <<>>]),
                                     Tabulate(J, x[k]), Tabulate(Jd, x[k]))}} : TRUE

\* A test that never breaks out of the while loop.
Converged_Never(delta) == FALSE

\* fabs(delta) < eps
Converged(delta) == Less(Fabs(delta), eps)

\* while (j < max_iter) { update; if (fabs(delta) < eps) break; ++j; }
RECURSIVE NewtonLoop(_, _, _, _, _)
NewtonLoop(J, Jd, x, k, j) ==
  IF j < max_iter
    THEN CHOOSE r \in {IF Converged(u.delta) THEN u.x
                        ELSE NewtonLoop(J, Jd, u.x, k, j + 1) :
                        u \in {NewtonUpdate(J, Jd, x, k)}} : TRUE
  ELSE x

\* for (k = 0; k < m; ++k) { initial guess; Newton loop }
RECURSIVE RootsLoop(_, _, _, _, _)
RootsLoop(J, Jd, x, k, m) ==
  IF k < m
    THEN CHOOSE r \in {RootsLoop(J, Jd, x1, k + 1, m) :
                        x1 \in {NewtonLoop(J, Jd, x0, k, 0) :
                                  x0 \in {InitialGuess(x, k, m)}}} : TRUE
  ELSE x

compute_gauss_jacobi_points(a, m) ==
  CHOOSE r \in {RootsLoop(J, PolyDiff(J), Force([i \in 0..(m - 1) |-> Uninit]), 0, m) :
                 J \in {compute_jacobi(a, m)}} : TRUE

----------------------------------------------------------------------------
(* compute_gauss_jacobi_rule(a, m): points and weights on [-1, 1].         *)

RECURSIVE PowInt(_, _)
PowInt(b, e) == IF e <= 0 THEN 1 ELSE b * PowInt(b, e - 1)

\* pow(2.0, e) for an integral e
Pow2(e) == IF e >= 0 THEN FromInt(PowInt(2, e)) ELSE Div(One, FromInt(PowInt(2, -e)))

\* for (i = 0; i < m; ++i) a5 *= (i + 1), from a5 = 1.0
RECURSIVE FactorialLoop(_, _, _)
FactorialLoop(a5, i, m) ==
  IF i < m THEN FactorialLoop(Mul(a5, FromInt(i + 1)), i + 1, m) ELSE a5

\* tgamma(n) for an integral n >= 1: (n - 1)!
RECURSIVE Tgamma(_)
Tgamma(n) == IF n <= 1 THEN One ELSE Mul(FromInt(n - 1), Tgamma(n - 1))

\* The weight without the division by f * f.
GaussJacobiWeight_NoDerivative(a6, Jd, x) == Div(a6, Sub(One, Mul(x, x)))

\* wts[i] = a6 / (1.0 - x * x) / (f * f) with x = pts[i], f = Jd.tabulate(x)
GaussJacobiWeight(a6, Jd, x) ==
  CHOOSE r \in {Div(Div(a6, Sub(One, Mul(x, x))), Mul(f, f)) :
                 f \in {Tabulate(Jd, x)}} : TRUE

compute_gauss_jacobi_rule(a, m) ==
  CHOOSE r \in {[pts |-> pts,
                  wts |-> Force([i \in 0..(m - 1) |-> GaussJacobiWeight(a6, Jd, pts[i])])] :
                 pts \in {compute_gauss_jacobi_points(a, m)},
                 Jd \in {PolyDiff(compute_jacobi(a, m))},
                 a6 \in {Div(Mul(Pow2(a + 1), Tgamma(m + 1)),
                             FactorialLoop(One, 0, m))}} : TRUE

----------------------------------------------------------------------------
(* Reference rules.  A rule under construction is a record                 *)
(*   pts    : 0..n-1 -> row of coordinates, a function on 0..dim-1         *)
(*   wts    : 0..n-1 -> weight                                             *)
(*   idx    : the write index of the tensor-product loop                   *)
(*   writes : the indices written, in order                                *)
(*   oob    : whether a write fell outside 0..n-1                          *)

\* pts.row(idx) << x, y, ...: a row of coordinates, indexed from 0.
Row(seq) == Force([c \in 0..(Len(seq) - 1) |-> seq[c + 1]])

NewRule(n) ==
  [pts |-> Force([s \in 0..(n - 1) |-> Row(<<>>)]), wts |-> Force([s \in 0..(n - 1) |-> Uninit]),
   idx |-> 0, writes |-> <<>>, oob |-> FALSE]

\* The write without ++idx.
WriteSlot_NoIncrement(r, row, w) ==
  IF r.idx \in DOMAIN r.pts
    THEN [r EXCEPT !.pts[r.idx] = row, !.wts[r.idx] = w,
                   !.writes = Append(r.writes, r.idx)]
  ELSE [r EXCEPT !.writes = Append(r.writes, r.idx), !.oob = TRUE]

\* pts.row(idx) << row; wts[idx] = w; ++idx;
WriteSlot(r, row, w) ==
  IF r.idx \in DOMAIN r.pts
    THEN [r EXCEPT !.pts[r.idx] = row, !.wts[r.idx] = w,
                   !.idx = r.idx + 1, !.writes = Append(r.writes, r.idx)]
  ELSE [r EXCEPT !.idx = r.idx + 1, !.writes = Append(r.writes, r.idx),
                 !.oob = TRUE]

\* pts = 0.5 * (ptx + 1.0); wts = wx * 0.5: whole-array expressions.
make_quadrature_line(m) ==
  CHOOSE r \in {[pts |-> Force([i \in 0..(m - 1) |-> Row(<<Mul(Half, Add(g.pts[i], One))>>)]),
                  wts |-> Force([i \in 0..(m - 1) |-> Mul(g.wts[i], Half)]),
                  idx |-> m, writes |-> [i \in 1..m |-> i - 1], oob |-> FALSE] :
                 g \in {compute_gauss_jacobi_rule(0, m)}} : TRUE

\* The double loop over i and j of make_quadrature_triangle_collapsed.
RECURSIVE TriangleLoop(_, _, _, _, _, _)
TriangleLoop(r, gx, gy, m, i, j) ==
  IF i >= m THEN r
  ELSE IF j >= m THEN TriangleLoop(r, gx, gy, m, i + 1, 0)
  ELSE LET x == Mul(Mul(Quarter, Add(One, gx.pts[i])), Sub(One, gy.pts[j]))
           y == Mul(Half, Add(One, gy.pts[j]))
           w == Mul(Mul(gx.wts[i], gy.wts[j]), Eighth)
       IN CHOOSE res \in {TriangleLoop(r1, gx, gy, m, i, j + 1) :
                           r1 \in {WriteSlot(r, Row(<<x, y>>), w)}} : TRUE

make_quadrature_triangle_collapsed(m) ==
  CHOOSE r \in {TriangleLoop(NewRule(m * m), gx, gy, m, 0, 0) :
                 gx \in {compute_gauss_jacobi_rule(0, m)},
                 gy \in {compute_gauss_jacobi_rule(1, m)}} : TRUE

\* The triple loop over i, j and k of make_quadrature_tetrahedron_collapsed.
RECURSIVE TetrahedronLoop(_, _, _, _, _, _, _, _)
TetrahedronLoop(r, gx, gy, gz, m, i, j, k) ==
  IF i >= m THEN r
  ELSE IF j >= m THEN TetrahedronLoop(r, gx, gy, gz, m, i + 1, 0, 0)
  ELSE IF k >= m THEN TetrahedronLoop(r, gx, gy, gz, m, i, j + 1, 0)
  ELSE LET x == Mul(Mul(Mul(Eighth, Add(One, gx.pts[i])), Sub(One, gy.pts[j])),
                    Sub(One, gz.pts[k]))
           y == Mul(Mul(Quarter, Add(One, gy.pts[j])), Sub(One, gz.pts[k]))
           z == Mul(Half, Add(One, gz.pts[k]))
           w == Mul(Mul(Mul(Mul(gx.wts[i], gy.wts[j]), gz.wts[k]), Eighth), Eighth)
       IN CHOOSE res \in {TetrahedronLoop(r1, gx, gy, gz, m, i, j, k + 1) :
                           r1 \in {WriteSlot(r, Row(<<x, y, z>>), w)}} : TRUE

make_quadrature_tetrahedron_collapsed(m) ==
  CHOOSE r \in {TetrahedronLoop(NewRule(m * m * m), gx, gy, gz, m, 0, 0, 0) :
                 gx \in {compute_gauss_jacobi_rule(0, m)},
                 gy \in {compute_gauss_jacobi_rule(1, m)},
                 gz \in {compute_gauss_jacobi_rule(2, m)}} : TRUE

\* make_quadrature(dim, m)
make_quadrature_dim(dim, m) ==
  IF dim = 1 THEN make_quadrature_line(m)
  ELSE IF dim = 2 THEN make_quadrature_triangle_collapsed(m)
  ELSE make_quadrature_tetrahedron_collapsed(m)

----------------------------------------------------------------------------
(* make_quadrature(simplex, m).  A simplex is a record                     *)
(*   rows, cols : the shape of the array                                   *)
(*   at         : 0..rows-1 -> (0..cols-1 -> coordinate)                   *)

\* The two throws: "" when the simplex is accepted.
Validate(simplex) ==
  LET dim == simplex.rows - 1
  IN IF dim < 1 \/ dim > 3 THEN "Unsupported dim"
     ELSE IF simplex.cols < dim THEN "Invalid simplex"
     ELSE ""

\* bvec.row(i) = simplex.row(i + 1) - simplex.row(0)
EdgeVectors(simplex) ==
  [i \in 0..(simplex.rows - 2) |->
     [c \in 0..(simplex.cols - 1) |-> Sub(simplex.at[i + 1][c], simplex.at[0][c])]]

\* Sum of f[lo], ..., f[hi - 1], added left to right.
RECURSIVE SumRange(_, _, _)
SumRange(f, lo, hi) ==
  IF lo >= hi THEN Zero ELSE Add(f[hi - 1], SumRange(f, lo, hi - 1))

\* Eigen's norm(): the square root of the sum of the squared coefficients.
RowSquaredNorm(row, cols) == SumRange([c \in 0..(cols - 1) |-> Mul(row[c], row[c])], 0, cols)
MatrixNorm(b, rows, cols) ==
  Sqrt(SumRange([i \in 0..(rows - 1) |-> RowSquaredNorm(b[i], cols)], 0, rows))

\* Eigen's determinant() of the leading 2 x 2 and 3 x 3 block.
Determinant2(b) == Sub(Mul(b[0][0], b[1][1]), Mul(b[0][1], b[1][0]))
Determinant3(b) ==
  Add(Sub(Mul(b[0][0], Sub(Mul(b[1][1], b[2][2]), Mul(b[1][2], b[2][1]))),
          Mul(b[0][1], Sub(Mul(b[1][0], b[2][2]), Mul(b[1][2], b[2][0])))),
      Mul(b[0][2], Sub(Mul(b[1][0], b[2][1]), Mul(b[1][1], b[2][0]))))

\* a.cross(b).norm() for Eigen::Vector3d a, b
CrossNorm(a, b) ==
  LET cx == Sub(Mul(a[1], b[2]), Mul(a[2], b[1]))
      cy == Sub(Mul(a[2], b[0]), Mul(a[0], b[2]))
      cz == Sub(Mul(a[0], b[1]), Mul(a[1], b[0]))
  IN Sqrt(Add(Add(Mul(cx, cx), Mul(cy, cy)), Mul(cz, cz)))

\* Whether the scale is computed by an operation on mismatched sizes:
\* Eigen::Vector3d a = bvec.row(0) with cols # 3, or the determinant of a
\* 3 x cols matrix after assert(bvec.cols() == 3).
SizeMismatch(dim, cols) ==
  \/ dim = 2 /\ cols # 2 /\ cols # 3
  \/ dim = 3 /\ cols # 3

\* The scale where every size matches.
ScaleFactor(dim, bvec, cols) ==
  IF dim = 1 THEN MatrixNorm(bvec, 1, cols)
  ELSE IF dim = 2
    THEN (IF cols = 2 THEN Determinant2(bvec) ELSE CrossNorm(bvec[0], bvec[1]))
  ELSE Determinant3(bvec)

\* With assertions compiled out the mismatched operation is undefined: the
\* value of the leading block, or no meaningful value at all.
UndefinedScales(dim, bvec, cols) == {ScaleFactor(dim, bvec, cols), Zero, NaN}

\* The builds and, on mismatched sizes, the values the undefined operation
\* may produce.
Outcomes(simplex) ==
  IF Validate(simplex) = "" /\ SizeMismatch(simplex.rows - 1, simplex.cols)
    THEN {[assertions |-> TRUE, junk |-> Zero]}
         \cup {[assertions |-> FALSE, junk |-> v] :
                 v \in UndefinedScales(simplex.rows - 1, EdgeVectors(simplex), simplex.cols)}
  ELSE {[assertions |-> TRUE, junk |-> Zero]}

\* The mapping with every edge vector replaced by the first.
MapPoint_FirstEdge(q, bvec, simplex, dim) ==
  [c \in 0..(simplex.cols - 1) |->
     Add(simplex.at[0][c], SumRange([d \in 0..(dim - 1) |-> Mul(q[d], bvec[0][c])], 0, dim))]

\* s = Qpts.row(i).matrix() * bvec; Qpts_scaled.row(i) = simplex.row(0) + s
MapPoint(q, bvec, simplex, dim) ==
  [c \in 0..(simplex.cols - 1) |->
     Add(simplex.at[0][c], SumRange([d \in 0..(dim - 1) |-> Mul(q[d], bvec[d][c])], 0, dim))]

\* Qwts_scaled = Qwts * scale
ScaleWeights(Qwts, scale) == Force([i \in DOMAIN Qwts |-> Mul(Qwts[i], scale)])

NoRule == [pts |-> <<>>, wts |-> <<>>]
NoLocals == [dim |-> 0, bvec |-> <<>>, Q |-> NewRule(0), scale |-> One, mismatch |-> FALSE]

\* The call once the simplex is accepted, with its edge vectors bvec and
\* the reference rule Q, under the outcome o.
MapRule(simplex, o, dim, bvec, Q) ==
  LET bad == SizeMismatch(dim, simplex.cols)
      scale == IF bad THEN o.junk ELSE ScaleFactor(dim, bvec, simplex.cols)
      out1 == <<[text |-> "Bvec = ", value |-> bvec]>>
  IN IF bad /\ o.assertions
       THEN [pc |-> "aborted", what |-> "assertion failed", cout |-> out1,
             loc |-> [dim |-> dim, bvec |-> bvec, Q |-> Q, scale |-> One,
                      mismatch |-> TRUE],
             ret |-> NoRule]
     ELSE [pc |-> "returned", what |-> "",
           cout |-> Append(out1, [text |-> "scale = ", value |-> scale]),
           loc |-> [dim |-> dim, bvec |-> bvec, Q |-> Q, scale |-> scale,
                    mismatch |-> bad],
           ret |-> [pts |-> [i \in DOMAIN Q.pts |->
                               MapPoint(Q.pts[i], bvec, simplex, dim)],
                    wts |-> ScaleWeights(Q.wts, scale)]]

\* The call without the throw of line 186.
make_quadrature_simplex_NoColsCheck(simplex, m, o) ==
  IF Validate(simplex) = "Unsupported dim"
    THEN [pc |-> "threw", what |-> Validate(simplex), cout |-> <<>>,
          loc |-> NoLocals, ret |-> NoRule]
  ELSE IF Validate(simplex) # ""
    THEN [pc |-> "returned", what |-> "", cout |-> <<>>, loc |-> NoLocals,
          ret |-> [pts |-> NewRule(m).pts, wts |-> NewRule(m).wts]]
  ELSE CHOOSE r \in {MapRule(simplex, o, simplex.rows - 1, bvec, Q) :
                      bvec \in {EdgeVectors(simplex)},
                      Q \in {make_quadrature_dim(simplex.rows - 1, m)}} : TRUE

\* The call, under one outcome o of Outcomes(simplex): how it ends, what it
\* wrote to std::cout, its locals and the pair it returns.
make_quadrature_simplex(simplex, m, o) ==
  IF Validate(simplex) # ""
    THEN [pc |-> "threw", what |-> Validate(simplex), cout |-> <<>>,
          loc |-> NoLocals, ret |-> NoRule]
  ELSE CHOOSE r \in {MapRule(simplex, o, simplex.rows - 1, bvec, Q) :
                      bvec \in {EdgeVectors(simplex)},
                      Q \in {make_quadrature_dim(simplex.rows - 1, m)}} : TRUE

----------------------------------------------------------------------------
VARIABLES
  \* a call of make_quadrature
  call,     \* the request: [kind |-> "dim", dim |-> d] or [kind |-> "simplex"]
  simplex,  \* the caller's simplex
  m,        \* the number of points per direction
  pc,       \* "start", "returned", "threw" (std::runtime_error), "aborted" (assert)
  what,     \* what() of the exception thrown
  cout,     \* what was written to std::cout
  loc,      \* the locals of make_quadrature(simplex, m) when it ended
  ret,      \* the pair returned: [pts, wts]
  \* a run of compute_gauss_jacobi_points(a, m)
  a,        \* the Jacobi weight
  pcN,      \* "idle", "guess" (top of the for body), "newton" (top of the
            \* while loop), "done" (returned)
  k,        \* the root being computed
  j,        \* the iteration counter of the while loop
  x,        \* the array of roots
  delta,    \* the last Newton step
  hist      \* history: guess, the initial guess of root k; read, the root and
            \* the indices of the last deflation sum; nupd, the updates of
            \* root k so far; ends, how the loop of each root ended

callVars == <<call, simplex, m, pc, what, cout, loc, ret>>
newtonVars == <<a, pcN, k, j, x, delta, hist>>
vars == <<call, simplex, m, pc, what, cout, loc, ret, a, pcN, k, j, x, delta, hist>>

----------------------------------------------------------------------------
(* Specification of the calls: Init draws a request, one action per entry  *)
(* point runs it.                                                          *)

\* All orders of the elements of S, as sequences.
RECURSIVE Orders(_)
Orders(S) ==
  IF S = {} THEN {<<>>}
  ELSE UNION {{<<e>> \o p : p \in Orders(S \ {e})} : e \in S}

\* Corner i of the right-angled simplex of leg s: the origin for i = 0, s
\* times the i-th unit vector for 1 <= i <= cols, the origin again beyond.
Corner(i, s, cols) ==
  [c \in 0..(cols - 1) |-> IF c = i - 1 THEN FromInt(s) ELSE Zero]

\* The simplex with the corners 0..rows-1 in the order p.
SimplexOf(rows, cols, s, p) ==
  [rows |-> rows, cols |-> cols,
   at |-> [r \in 0..(rows - 1) |-> Corner(p[r + 1], s, cols)]]

NoSimplex == [rows |-> 0, cols |-> 0, at |-> <<>>]

NoHistory == [guess |-> Zero, read |-> [k |-> 0, idx |-> <<>>], nupd |-> 0, ends |-> <<>>]

NewtonIdle ==
  /\ a = 0 /\ pcN = "idle" /\ k = 0 /\ j = 0 /\ x = <<>> /\ delta = Zero
  /\ hist = NoHistory

Init ==
  /\ m \in 1..MaxM
  /\ \/ /\ call = [kind |-> "simplex"]
        /\ \E rows \in 0..MaxRows, cols \in 0..MaxCols, s \in 0..MaxCoord :
             \E p \in Orders(0..(rows - 1)) : simplex = SimplexOf(rows, cols, s, p)
     \/ /\ \E dim \in 1..3 : call = [kind |-> "dim", dim |-> dim]
        /\ simplex = NoSimplex
  /\ pc = "start" /\ what = "" /\ cout = <<>> /\ loc = NoLocals /\ ret = NoRule
  /\ NewtonIdle

\* make_quadrature(dim, m)
MakeQuadratureDim ==
  /\ pc = "start" /\ call.kind = "dim"
  /\ \E Q \in {make_quadrature_dim(call.dim, m)} :
       /\ loc' = [NoLocals EXCEPT !.dim = call.dim, !.Q = Q]
       /\ ret' = [pts |-> Q.pts, wts |-> Q.wts]
  /\ pc' = "returned"
  /\ UNCHANGED <<call, simplex, m, what, cout>>
  /\ UNCHANGED newtonVars

\* make_quadrature(simplex, m)
MakeQuadratureSimplex ==
  /\ pc = "start" /\ call.kind = "simplex"
  /\ \E o \in Outcomes(simplex) :
       \E r \in {make_quadrature_simplex(simplex, m, o)} :
         /\ pc' = r.pc /\ what' = r.what /\ cout' = cout \o r.cout
         /\ loc' = r.loc /\ ret' = r.ret
  /\ UNCHANGED <<call, simplex, m>>
  /\ UNCHANGED newtonVars

Next == MakeQuadratureDim \/ MakeQuadratureSimplex

Spec == Init /\ [][Next]_vars

----------------------------------------------------------------------------
(* Specification of one run of compute_gauss_jacobi_points(a, m), one      *)
(* action per pass of its loops.                                           *)

\* The weights a the run is started with: 0, 1 and 2 are the ones the rules
\* use; with -2 the polynomial of degree 1 is constant and no step converges.
NewtonWeights == {-2, 0, 1, 2}

CallIdle ==
  /\ call = [kind |-> "none"] /\ simplex = NoSimplex /\ pc = "idle" /\ what = ""
  /\ cout = <<>> /\ loc = NoLocals /\ ret = NoRule

InitNewton ==
  /\ m \in 1..MaxM
  /\ a \in NewtonWeights
  /\ CallIdle
  /\ pcN = "guess" /\ k = 0 /\ j = 0 /\ delta = Zero
  /\ x = Force([i \in 0..(m - 1) |-> Uninit])
  /\ hist = NoHistory

\* How the while loop of root k ended.
LoopEnd(how) == [k |-> k, how |-> how, nupd |-> hist.nupd, delta |-> delta, root |-> x[k]]

\* Lines 51-58: the for condition holds; initial guess, j = 0.
ForBody ==
  /\ pcN = "guess" /\ k < m
  /\ \E x1 \in {InitialGuess(x, k, m)} :
       /\ x' = x1
       /\ hist' = [hist EXCEPT !.guess = x1[k], !.nupd = 0]
  /\ j' = 0
  /\ pcN' = "newton"
  /\ UNCHANGED <<a, k, delta>>
  /\ UNCHANGED callVars

\* Lines 59-72: one pass of the while body: the update, then break or ++j.
WhileBody ==
  /\ pcN = "newton" /\ j < max_iter
  /\ \E J \in {compute_jacobi(a, m)} :
       \E u \in {NewtonUpdate(J, PolyDiff(J), x, k)} :
         /\ x' = u.x
         /\ delta' = u.delta
         /\ IF Converged(u.delta)
              THEN /\ hist' = [hist EXCEPT
                                 !.read = [k |-> k, idx |-> u.idx],
                                 !.nupd = hist.nupd + 1,
                                 !.ends = Append(hist.ends,
                                                 [k |-> k, how |-> "converged",
                                                  nupd |-> hist.nupd + 1,
                                                  delta |-> u.delta, root |-> u.x[k]])]
                   /\ k' = k + 1
                   /\ pcN' = "guess"
                   /\ j' = j
            ELSE /\ hist' = [hist EXCEPT !.read = [k |-> k, idx |-> u.idx],
                                         !.nupd = hist.nupd + 1]
                 /\ j' = j + 1
                 /\ UNCHANGED <<k, pcN>>
  /\ UNCHANGED a
  /\ UNCHANGED callVars

\* Line 59: the while condition fails at j = max_iter; on to the next root.
WhileExit ==
  /\ pcN = "newton" /\ j >= max_iter
  /\ hist' = [hist EXCEPT !.ends = Append(hist.ends, LoopEnd("capped"))]
  /\ k' = k + 1
  /\ pcN' = "guess"
  /\ UNCHANGED <<a, j, x, delta>>
  /\ UNCHANGED callVars

\* Lines 51 and 75: the for condition fails; return x.
ReturnRoots ==
  /\ pcN = "guess" /\ k >= m
  /\ pcN' = "done"
  /\ UNCHANGED <<a, k, j, x, delta, hist>>
  /\ UNCHANGED callVars

NextNewton == ForBody \/ WhileBody \/ WhileExit \/ ReturnRoots

\* The run is one sequential call: it takes its next step whenever it has one.
SpecNewton == InitNewton /\ [][NextNewton]_vars /\ WF_vars(NextNewton)

----------------------------------------------------------------------------
(* The claims.                                                             *)

Dim == simplex.rows - 1
Accepted == Dim \in 1..3 /\ simplex.cols >= Dim
SimplexCallEnded == call.kind = "simplex" /\ pc # "start"
SimplexCallReturned == call.kind = "simplex" /\ pc = "returned"
DimCallReturned == call.kind = "dim" /\ pc = "returned"

\* <<0, 1, ..., n - 1>>
Identity(n) == [i \in 1..n |-> i - 1]

WeightSum(wts) == SumRange(wts, 0, Cardinality(DOMAIN wts))

\* C1: make_quadrature(simplex, m) throws an invalid-input error, at once
\* and without returning a rule, whenever dim = rows - 1 is outside 1..3 or
\* the simplex has fewer than dim columns; for every shape, 0 and 1 rows
\* included.
C1_InvalidSimplexThrows ==
  SimplexCallEnded /\ ~Accepted =>
    /\ pc = "threw"
    /\ what = (IF Dim \in 1..3 THEN "Invalid simplex" ELSE "Unsupported dim")
    /\ ret = NoRule
    /\ cout = <<>>

C1_Witness ==
  /\ SimplexCallEnded /\ pc = "threw"
  /\ \/ simplex.rows = 0
     \/ simplex.rows = 1
     \/ Dim \in 1..3 /\ simplex.cols < Dim

\* C2: each mapped weight is the reference weight times the absolute value
\* of the scale factor, for every accepted simplex in every order of its
\* vertices.
C2_WeightsScaledByAbsoluteValue ==
  SimplexCallReturned /\ ~loc.mismatch =>
    \A i \in DOMAIN ret.wts : ret.wts[i] = Mul(loc.Q.wts[i], Fabs(loc.scale))

\* The measure of the simplex from its vertices.  The simplices drawn are
\* right-angled with legs of one length along the axes: the leg is the
\* largest coordinate of any vertex, the measure leg^dim / dim!.
Factorial(n) == IF n <= 1 THEN 1 ELSE IF n = 2 THEN 2 ELSE 6
Leg(sx) ==
  LET coords == {sx.at[r][c].v : r \in 0..(sx.rows - 1), c \in 0..(sx.cols - 1)}
  IN Fin(CHOOSE v \in coords : \A w \in coords : w <= v)
Measure(sx) ==
  LET leg == Leg(sx)
      dim == sx.rows - 1
      power == IF dim = 1 THEN leg
               ELSE IF dim = 2 THEN Mul(leg, leg) ELSE Mul(Mul(leg, leg), leg)
  IN Div(power, FromInt(Factorial(dim)))
ReferenceMeasure(dim) == Div(One, FromInt(Factorial(dim)))

\* Equal up to the rounding of the arithmetic: within 2 % and two grid steps.
Close(v, w) == IsFin(v) /\ IsFin(w) /\ AbsInt(v.v - w.v) <= AbsInt(w.v) \div 50 + 2

\* C3: the weights of make_quadrature(dim, m) sum to the measure of the
\* reference cell, and the weights of make_quadrature(simplex, m) sum to the
\* measure of the simplex.
C3_WeightSumIsMeasure ==
  /\ DimCallReturned => Close(WeightSum(ret.wts), ReferenceMeasure(call.dim))
  /\ SimplexCallReturned /\ ~loc.mismatch =>
       Close(WeightSum(ret.wts), Measure(simplex))

\* C4: for every simplex with dim in 1..3 and at least dim columns the call
\* returns a rule: no throw, no assertion failure, no operation on
\* mismatched sizes.
C4_WellFormedCompletes ==
  SimplexCallEnded /\ Accepted => pc = "returned" /\ ~loc.mismatch

\* C5: a rule construction writes nothing to any output stream.
C5_NoOutput ==
  pc \in {"returned", "threw", "aborted"} => cout = <<>>

\* C6: points and weights have the same length m^dim; the write index of
\* the tensor-product loop visits 0, ..., m^dim - 1 once each and never
\* leaves that range; the mapped rule has the length of the reference rule
\* and each mapped point has as many coordinates as the simplex has columns.
C6_LengthsAndWrites ==
  pc = "returned" =>
    LET n == PowInt(m, loc.dim)
        width == IF call.kind = "simplex" THEN simplex.cols ELSE loc.dim
    IN /\ DOMAIN ret.pts = 0..(n - 1)
       /\ DOMAIN ret.wts = 0..(n - 1)
       /\ loc.Q.idx = n
       /\ loc.Q.writes = Identity(n)
       /\ ~loc.Q.oob
       /\ DOMAIN loc.Q.pts = DOMAIN ret.pts
       /\ DOMAIN loc.Q.wts = DOMAIN ret.wts
       /\ \A i \in DOMAIN ret.pts : DOMAIN ret.pts[i] = 0..(width - 1)

C6_Witness ==
  /\ SimplexCallReturned /\ loc.dim = 3 /\ simplex.cols = 3 /\ m = MaxM
  /\ Cardinality(DOMAIN ret.pts) = MaxM * MaxM * MaxM

\* What holds of the Newton loops in every state of a run.
C7_Bounded ==
  /\ pcN \in {"guess", "newton", "done"}
  /\ j <= max_iter
  /\ hist.nupd <= max_iter
  /\ pcN = "newton" => /\ hist.nupd = j
                       /\ j > 0 => ~Less(Fabs(delta), eps)
  /\ \A i \in 1..Len(hist.ends) :
       LET e == hist.ends[i]
       IN /\ e.how \in {"converged", "capped"}
          /\ e.nupd \in 1..max_iter
          /\ e.how = "converged" => Less(Fabs(e.delta), eps)
          /\ e.how = "capped" => e.nupd = max_iter /\ ~Less(Fabs(e.delta), eps)
  /\ pcN = "done" => /\ Len(hist.ends) = m
                     /\ \A i \in 0..(m - 1) : x[i] = hist.ends[i + 1].root

\* C7: compute_gauss_jacobi_points(a, m) terminates: the loop of each root
\* ends at the first step below eps or after max_iter updates, whichever
\* comes first; at the cap nothing is raised and the last iterate is the
\* root returned.
C7_Terminates == []C7_Bounded /\ <>(pcN = "done")

C7_Witness ==
  /\ pcN = "done"
  /\ \E i \in 1..Len(hist.ends) : hist.ends[i].how = "capped"
  /\ \A i \in 0..(m - 1) : x[i] = hist.ends[i + 1].root

\* (0,0), (1,0), (0,1)
ReferenceTriangle == SimplexOf(3, 2, 1, <<0, 1, 2>>)

\* C8: on the simplex (0,0), (1,0), (0,1) make_quadrature(simplex, m)
\* returns the points and weights of make_quadrature(2, m), in order.
C8_ReferenceTriangleReproduces ==
  SimplexCallReturned /\ simplex = ReferenceTriangle =>
    /\ ret.pts = make_quadrature_dim(2, m).pts
    /\ ret.wts = make_quadrature_dim(2, m).wts

C8_Witness ==
  SimplexCallReturned /\ simplex = ReferenceTriangle /\ m = MaxM

Third == Fin(Scale \div 3)

\* C9: make_quadrature(2, 1) returns the one point (1/3, 1/3) with weight
\* 1/2, through the Jacobi polynomials x and (1 + 3x)/2 of degree 1 for
\* a = 0 and a = 1, their roots 0 and -1/3 and the weights 2 and 2.
C9_CentroidRule ==
  DimCallReturned /\ call.dim = 2 /\ m = 1 =>
    /\ compute_jacobi(0, 1) = <<Zero, One>>
    /\ compute_jacobi(1, 1) = <<Half, Fin(3 * (Scale \div 2))>>
    /\ compute_gauss_jacobi_rule(0, 1) = [pts |-> 0 :> Zero, wts |-> 0 :> FromInt(2)]
    /\ compute_gauss_jacobi_rule(1, 1) = [pts |-> 0 :> Neg(Third), wts |-> 0 :> FromInt(2)]
    /\ DOMAIN ret.pts = {0}
    /\ DOMAIN ret.wts = {0}
    /\ ret.pts[0] = Row(<<Third, Third>>)
    /\ ret.wts[0] = Half

C9_Witness ==
  /\ DimCallReturned /\ call.dim = 2 /\ m = 1
  /\ ret.wts = 0 :> Half

\* What holds of the order of the roots, the deflation sum and the initial
\* guess in every state of a run.
C10_Order ==
  /\ pcN \in {"guess", "newton"} => Len(hist.ends) = k
  /\ \A i \in 1..Len(hist.ends) : hist.ends[i].k = i - 1
  /\ hist.read.idx = Identity(hist.read.k)
  /\ pcN = "newton" /\ hist.nupd > 0 => hist.read.k = k
  /\ pcN = "newton" /\ hist.nupd = 0 =>
       /\ x[k] = hist.guess
       /\ hist.guess = IF k > 0 THEN Mul(Half, Add(Chebyshev(k, m), x[k - 1]))
                       ELSE Chebyshev(k, m)

\* A step moves to the next root or stays, and leaves the roots found alone.
C10_Frame ==
  /\ k' \in {k, k + 1}
  /\ \A i \in 0..(k - 1) : x'[i] = x[i]

====
